---- MODULE Spec2Model ----
(***************************************************************************)
(* The snippet store of snippets.py: put, get, post, delete, catalog and   *)
(* search over the table snippets(keyword unique, message), each inside a  *)
(* `with connection` transaction scope.                                    *)
(*                                                                         *)
(* A Python str is a sequence of one-character strings, so that substring  *)
(* search, LIKE matching and ORDER BY are computed, not assumed.           *)
(* A Python return value carries its shape: Str, Tuple or List.            *)
(***************************************************************************)
EXTENDS Integers, Sequences, FiniteSets, TLC

VARIABLES table, last, seen, deleted, proc, lastCommit

vars == <<table, last, seen, deleted, proc, lastCommit>>
concVars == <<proc, lastCommit>>

(* ------------------------------ strings -------------------------------- *)

NotFound == <<"4","0","4"," ","S","n","i","p","p","e","t"," ","N","o","t"," ","F","o","u","n","d">>
NoSnippets == <<"4","0","4"," ","N","o"," ","S","n","i","p","p","e","t","s"," ","F","o","u","n","d">>
NoMatch == <<"4","0","4"," ","N","o"," ","M","a","t","c","h","i","n","g"," ","S","n","i","p","p","e","t","s"," ","F","o","u","n","d"," ","C","o","n","t","a","i","n","i","n","g">>

\* The characters in use, in code point order (the order of a C collation).
Ascii == <<" ","%","'","0","4","C","F","M","N","S","_","a","b","c","d","e","g","h","i","n","o","p","s","t","u","x","y">>

Code(c) == CHOOSE i \in 1..Len(Ascii) : Ascii[i] = c

\* s <= r in lexicographic order, as ORDER BY keyword compares two keywords.
RECURSIVE StrLeq(_, _)
StrLeq(s, r) ==
    IF s = <<>> THEN TRUE
    ELSE IF r = <<>> THEN FALSE
    ELSE IF Head(s) = Head(r) THEN StrLeq(Tail(s), Tail(r))
    ELSE Code(Head(s)) < Code(Head(r))

(* ------------------------------- inputs -------------------------------- *)

\* Longest search string drawn for search().
MaxSearchLen == 2

\* Number of distinct messages the command line passes in.
NumMsgs == 3

\* Keywords and messages the command line passes in.
Names == {<<"a","b">>, <<"a">>, NotFound}
MsgList == <<<<"a","b">>, <<"'">>, NotFound, <<"_">>, <<>>>>
Msgs == {MsgList[i] : i \in 1..NumMsgs}
PatChars == {"a", "_", "%", "'"}

RECURSIVE StringsUpTo(_)
StringsUpTo(n) ==
    IF n = 0 THEN {<<>>}
    ELSE LET shorter == StringsUpTo(n - 1)
         IN shorter \cup {Append(s, c) : s \in {x \in shorter : Len(x) = n - 1}, c \in PatChars}

SearchStrs == StringsUpTo(MaxSearchLen)

\* Messages drawn where a persistence fault is injected.
FaultMsgs == {<<"a","b">>, NotFound}

\* Messages stored where search() is tried on every search string.
SearchMsgs == {<<"a","b">>, <<"'">>}

\* Search strings drawn where search() is only one of the reads.
ReadStrs == {<<>>, <<"a">>, <<"'">>}

(* ---------------------- Python values and outcomes --------------------- *)

Str(s) == [kind |-> "str", val |-> s]
Tuple(a, b) == [kind |-> "tuple", val |-> <<a, b>>]
List(l) == [kind |-> "list", val |-> l]
NoValue == [kind |-> "none", val |-> <<>>]

\* What the body of a `with connection` block ends in: the working table,
\* the value returned, the exception raised and the statement reached.
Ok(t, v, path) == [table |-> t, ret |-> v, raised |-> "none", path |-> path]
Fail(t, e, path) == [table |-> t, ret |-> NoValue, raised |-> e, path |-> path]

(* --------------------------- the SQL statements ------------------------ *)

\* A table is the sequence of its rows <<keyword, message>> in storage order.
WithKey(t, k) == SelectSeq(t, LAMBDA r : r[1] = k)
KeyCount(t, k) == Len(WithKey(t, k))
RowSet(t) == {t[i] : i \in 1..Len(t)}

\* insert into snippets values (k, m), on a table without the constraint.
InsertStmtNoUnique(t, k, m) == [err |-> "none", table |-> Append(t, <<k, m>>)]

\* insert into snippets values (k, m): keyword is unique, a second row for
\* k is refused with IntegrityError.
InsertStmt(t, k, m) ==
    IF KeyCount(t, k) > 0
    THEN [err |-> "IntegrityError", table |-> t]
    ELSE [err |-> "none", table |-> Append(t, <<k, m>>)]

\* update snippets set message = m where keyword = k
UpdateStmt(t, m, k) ==
    [i \in 1..Len(t) |-> IF t[i][1] = k THEN <<k, m>> ELSE t[i]]

\* delete from snippets: the where clause left out.
DeleteStmtAll(t, k) == <<>>

\* delete from snippets where keyword = k
DeleteStmt(t, k) == SelectSeq(t, LAMBDA r : r[1] # k)

\* select message from snippets where keyword = k; cursor.fetchone():
\* a row <<message>>, or <<>> for None.
SelectMessage(t, k) ==
    LET rows == WithKey(t, k)
    IN IF rows = <<>> THEN <<>> ELSE <<rows[1][2]>>

\* Insert row r into the sorted sequence s, by its first column.
RECURSIVE SortedInsert(_, _)
SortedInsert(s, r) ==
    IF s = <<>> THEN <<r>>
    ELSE IF StrLeq(r[1], Head(s)[1]) THEN <<r>> \o s
    ELSE <<Head(s)>> \o SortedInsert(Tail(s), r)

RECURSIVE OrderBy(_)
OrderBy(s) ==
    IF s = <<>> THEN <<>> ELSE SortedInsert(OrderBy(Tail(s)), Head(s))

\* select keyword from snippets: the order by clause left out.
SelectKeywordsUnordered(t) == [i \in 1..Len(t) |-> <<t[i][1]>>]

\* select keyword from snippets order by keyword; cursor.fetchall()
SelectKeywords(t) == OrderBy([i \in 1..Len(t) |-> <<t[i][1]>>])

\* s LIKE p: % matches any run of characters, _ any one character.
RECURSIVE Like(_, _)
Like(s, p) ==
    IF p = <<>> THEN s = <<>>
    ELSE IF Head(p) = "%" THEN Like(s, Tail(p)) \/ (s # <<>> /\ Like(Tail(s), p))
    ELSE /\ s # <<>>
         /\ Head(p) = "_" \/ Head(p) = Head(s)
         /\ Like(Tail(s), Tail(p))

\* The text between the quotes of '%{0}%' as the SQL lexer reads it: a
\* doubled quote is one quote, a single quote ends the literal early and
\* leaves a statement that does not parse.
RECURSIVE Unquote(_)
Unquote(s) ==
    IF s = <<>> THEN [ok |-> TRUE, text |-> <<>>]
    ELSE IF Head(s) = "'"
         THEN IF Len(s) >= 2 /\ s[2] = "'"
              THEN LET rest == Unquote(Tail(Tail(s)))
                   IN [ok |-> rest.ok, text |-> <<"'">> \o rest.text]
              ELSE [ok |-> FALSE, text |-> <<>>]
         ELSE LET rest == Unquote(Tail(s))
              IN [ok |-> rest.ok, text |-> <<Head(s)>> \o rest.text]

\* "select * from snippets where message like '%{0}%'".format(string);
\* cursor.fetchall(): the matching rows.
SelectLike(t, string) ==
    LET lit == Unquote(string)
    IN IF ~lit.ok
       THEN [err |-> "ProgrammingError", rows |-> <<>>]
       ELSE [err |-> "none",
             rows |-> SelectSeq(t, LAMBDA r : Like(r[2], <<"%">> \o lit.text \o <<"%">>))]

(* ---------------------- the transaction scope ------------------------- *)

\* An injected persistence fault (connection loss) strikes at one statement
\* of the operation, or at none.
NoFault == "none"

\* The exception a statement raises: the injected fault if it strikes at
\* this statement, else the statement's own error.
Exec(fault, stmt, err) == IF fault = stmt THEN "OperationalError" ELSE err

\* `with connection:` around a body that started from table t0: commit on a
\* normal exit (a return inside the block included), rollback and re-raise
\* on an exception; the commit itself may fail.
WithConnection(t0, body, fault) ==
    IF body.raised # "none" THEN [body EXCEPT !.table = t0]
    ELSE IF fault = "commit" THEN Fail(t0, "OperationalError", "commit")
    ELSE body

(* ----------------------------- operations ------------------------------ *)

\* except Exception: every error of the insert is taken for a conflict.
CaughtAny(e) == TRUE

\* except psycopg2.IntegrityError
Caught(e) == e = "IntegrityError"

\* put whose except branch only rolls back.
putNoUpdate(t, name, snippet, fault) ==
    LET ins == InsertStmt(t, name, snippet)
    IN IF ins.err = "none"
       THEN Ok(ins.table, Tuple(name, snippet), "insert")
       ELSE Ok(t, Tuple(name, snippet), "update")

put(t, name, snippet, fault) ==
    LET ins == InsertStmt(t, name, snippet)
        e1 == Exec(fault, "insert", ins.err)
        body ==
            IF e1 = "none" THEN Ok(ins.table, Tuple(name, snippet), "insert")
            ELSE IF ~Caught(e1) THEN Fail(t, e1, "insert")
            ELSE IF Exec(fault, "rollback", "none") # "none"
                 THEN Fail(t, "OperationalError", "rollback")
            \* connection.rollback(): back to the committed table t
            ELSE IF Exec(fault, "update", "none") # "none"
                 THEN Fail(t, "OperationalError", "update")
            ELSE Ok(UpdateStmt(t, snippet, name), Tuple(name, snippet), "update")
    IN WithConnection(t, body, fault)

\* get that consumes the row it reads.
getAndDelete(t, name, fault) ==
    LET row == SelectMessage(t, name)
    IN IF row = <<>> THEN Ok(t, Str(NotFound), "select")
       ELSE Ok(DeleteStmt(t, name), Str(row[1]), "select")

get(t, name, fault) ==
    LET row == SelectMessage(t, name)
        e1 == Exec(fault, "select", "none")
        blk == WithConnection(t, IF e1 # "none" THEN Fail(t, e1, "select")
                                 ELSE Ok(t, NoValue, "select"), fault)
    IN IF blk.raised # "none" THEN blk
       ELSE IF row = <<>> THEN [blk EXCEPT !.ret = Str(NotFound)]
       ELSE [blk EXCEPT !.ret = Str(row[1])]

\* post that falls back to an insert when the keyword is absent.
postUpsert(t, name, snippet, fault) ==
    IF SelectMessage(t, name) # <<>>
    THEN Ok(UpdateStmt(t, snippet, name), Tuple(name, snippet), "update")
    ELSE Ok(InsertStmt(t, name, snippet).table, Tuple(name, snippet), "insert")

\* post whose else branch is missing.
postNoElse(t, name, snippet, fault) ==
    Ok(UpdateStmt(t, snippet, name), Tuple(name, snippet), "update")

post(t, name, snippet, fault) ==
    LET e1 == Exec(fault, "select", "none")
        body ==
            IF e1 # "none" THEN Fail(t, e1, "select")
            ELSE IF SelectMessage(t, name) # <<>>
                 THEN IF Exec(fault, "update", "none") # "none"
                      THEN Fail(t, "OperationalError", "update")
                      ELSE Ok(UpdateStmt(t, snippet, name), Tuple(name, snippet), "update")
                 ELSE Ok(t, Tuple(name, NotFound), "absent")
    IN WithConnection(t, body, fault)

delete(t, name, fault) ==
    LET e1 == Exec(fault, "select", "none")
        body ==
            IF e1 # "none" THEN Fail(t, e1, "select")
            ELSE IF SelectMessage(t, name) # <<>>
                 THEN IF Exec(fault, "delete", "none") # "none"
                      THEN Fail(t, "OperationalError", "delete")
                      ELSE Ok(DeleteStmt(t, name), Str(name), "delete")
                 ELSE Ok(t, Str(NotFound), "absent")
    IN WithConnection(t, body, fault)

catalog(t, fault) ==
    LET keywords == SelectKeywords(t)
        e1 == Exec(fault, "select", "none")
        blk == WithConnection(t, IF e1 # "none" THEN Fail(t, e1, "select")
                                 ELSE Ok(t, NoValue, "select"), fault)
    IN IF blk.raised # "none" THEN blk
       ELSE IF keywords = <<>> THEN [blk EXCEPT !.ret = Str(NoSnippets)]
       ELSE [blk EXCEPT !.ret = List(keywords)]

search(t, string, fault) ==
    LET sel == SelectLike(t, string)
        e1 == Exec(fault, "select", sel.err)
        blk == WithConnection(t, IF e1 # "none" THEN Fail(t, e1, "select")
                                 ELSE Ok(t, NoValue, "select"), fault)
    IN IF blk.raised # "none" THEN blk
       ELSE IF sel.rows = <<>> THEN [blk EXCEPT !.ret = Tuple(NoMatch, string)]
       ELSE [blk EXCEPT !.ret = List(sel.rows)]

(* ------------------- one process, one call at a time ------------------- *)

NoCall == [op |-> "none", name |-> <<>>, snippet |-> <<>>, fault |-> NoFault,
           raised |-> "none", ret |-> NoValue, path |-> "none", again |-> FALSE]

\* The record of a call: its arguments, the fault injected and how it ended.
Call(op, name, snippet, fault, r) ==
    [op |-> op, name |-> name, snippet |-> snippet, fault |-> fault,
     raised |-> r.raised, ret |-> r.ret, path |-> r.path, again |-> FALSE]

\* seen[n]: what the latest get(n) returned, if no put, post or delete was
\* called since.  deleted: the keywords a delete removed, with no put of the
\* keyword called since.
Forget == [n \in Names |-> NoValue]

Procs == {1, 2}
Idle == [pc |-> "idle", op |-> "none", name |-> <<>>, snippet |-> <<>>,
         pend |-> "none", ret |-> NoValue]

Init ==
    /\ table = <<>>
    /\ last = NoCall
    /\ seen = Forget
    /\ deleted = {}
    /\ proc = [p \in Procs |-> Idle]
    /\ lastCommit = 0

Put(Snippets, Faults, Hist) ==
    \E name \in Names, snippet \in Snippets, fault \in Faults :
        LET r == put(table, name, snippet, fault)
        IN /\ table' = r.table
           /\ last' = Call("put", name, snippet, fault, r)
           /\ seen' = Forget
           /\ deleted' = deleted \ {name}
           /\ UNCHANGED concVars

Get(Faults, Hist) ==
    \E name \in Names, fault \in Faults :
        LET r == get(table, name, fault)
        IN /\ table' = r.table
           /\ last' = [Call("get", name, <<>>, fault, r)
                          EXCEPT !.again = r.raised = "none" /\ seen[name] # NoValue]
           /\ seen' = IF Hist /\ r.raised = "none"
                      THEN [seen EXCEPT ![name] = r.ret] ELSE seen
           /\ UNCHANGED <<deleted, concVars>>

Post(Snippets, Faults, Hist) ==
    \E name \in Names, snippet \in Snippets, fault \in Faults :
        LET r == post(table, name, snippet, fault)
        IN /\ table' = r.table
           /\ last' = Call("post", name, snippet, fault, r)
           /\ seen' = Forget
           /\ UNCHANGED <<deleted, concVars>>

Delete(Faults, Hist) ==
    \E name \in Names, fault \in Faults :
        LET r == delete(table, name, fault)
        IN /\ table' = r.table
           /\ last' = [Call("delete", name, <<>>, fault, r)
                          EXCEPT !.again = r.raised = "none" /\ name \in deleted]
           /\ seen' = Forget
           /\ deleted' = IF Hist /\ r.raised = "none" /\ KeyCount(table, name) > 0
                         THEN deleted \cup {name} ELSE deleted
           /\ UNCHANGED concVars

Catalog(Faults) ==
    \E fault \in Faults :
        LET r == catalog(table, fault)
        IN /\ table' = r.table
           /\ last' = Call("catalog", <<>>, <<>>, fault, r)
           /\ UNCHANGED <<seen, deleted, concVars>>

Search(Strings, Faults) ==
    \E string \in Strings, fault \in Faults :
        LET r == search(table, string, fault)
        IN /\ table' = r.table
           /\ last' = Call("search", string, <<>>, fault, r)
           /\ UNCHANGED <<seen, deleted, concVars>>

\* The six commands, one after the other, on a healthy connection.
Next ==
    \/ Put(Msgs, {NoFault}, TRUE)
    \/ Get({NoFault}, TRUE)
    \/ Post(Msgs, {NoFault}, TRUE)
    \/ Delete({NoFault}, TRUE)
    \/ Catalog({NoFault})
    \/ Search(ReadStrs, {NoFault})

Spec == Init /\ [][Next]_vars

\* The six commands with a persistence fault injected at any statement.
NextFault ==
    \/ Put(FaultMsgs, {NoFault, "insert", "rollback", "update", "commit"}, FALSE)
    \/ Get({NoFault, "select", "commit"}, FALSE)
    \/ Post(FaultMsgs, {NoFault, "select", "update", "commit"}, FALSE)
    \/ Delete({NoFault, "select", "delete", "commit"}, FALSE)
    \/ Catalog({NoFault, "select", "commit"})
    \/ Search(ReadStrs, {NoFault, "select", "commit"})

SpecFault == Init /\ [][NextFault]_vars

\* Tables built by put, searched with every string up to MaxSearchLen.
NextSearch ==
    \/ Put(SearchMsgs, {NoFault}, FALSE)
    \/ Search(SearchStrs, {NoFault})

SpecSearch == Init /\ [][NextSearch]_vars

(* --------------- two processes, statements interleaved ----------------- *)

\* Each process runs one command at a time in its own transaction; the
\* store is READ COMMITTED: a statement sees the committed table, a write
\* waits for the other process's uncommitted write of the same keyword.
ConcNames == {<<"a">>}
ConcMsgs == {<<"a","b">>, <<"'">>}

\* The other process holds an uncommitted write of one of these kinds on k.
Blocked(p, k, kinds) ==
    \E q \in Procs \ {p} : proc[q].name = k /\ proc[q].pend \in kinds

Start(p) ==
    /\ proc[p].pc = "idle"
    /\ \E op \in {"put", "post", "delete"}, name \in ConcNames, snippet \in ConcMsgs :
          proc' = [proc EXCEPT ![p] =
                      [pc |-> IF op = "put" THEN "insert" ELSE "select",
                       op |-> op, name |-> name,
                       snippet |-> IF op = "delete" THEN <<>> ELSE snippet,
                       pend |-> "none", ret |-> NoValue]]
    /\ UNCHANGED <<table, lastCommit, last, seen, deleted>>

\* put: cursor.execute("insert ..."), and the except clause entered or not.
PutInsert(p) ==
    LET me == proc[p]
        ins == InsertStmt(table, me.name, me.snippet)
    IN /\ me.pc = "insert"
       /\ ~Blocked(p, me.name, {"insert", "update", "delete"})
       /\ proc' = [proc EXCEPT ![p] =
                      IF ins.err = "none"
                      THEN [me EXCEPT !.pend = "insert", !.pc = "commit",
                                      !.ret = Tuple(me.name, me.snippet)]
                      ELSE [me EXCEPT !.pc = "rollback"]]
       /\ UNCHANGED <<table, lastCommit, last, seen, deleted>>

\* put: connection.rollback()
PutRollback(p) ==
    /\ proc[p].pc = "rollback"
    /\ proc' = [proc EXCEPT ![p] = [proc[p] EXCEPT !.pend = "none", !.pc = "update"]]
    /\ UNCHANGED <<table, lastCommit, last, seen, deleted>>

\* put, post: cursor.execute("update ...")
Update(p) ==
    LET me == proc[p]
    IN /\ me.pc = "update"
       /\ ~Blocked(p, me.name, {"update", "delete"})
       /\ proc' = [proc EXCEPT ![p] =
                      [me EXCEPT !.pend = IF KeyCount(table, me.name) > 0
                                          THEN "update" ELSE "none",
                                 !.pc = "commit",
                                 !.ret = Tuple(me.name, me.snippet)]]
       /\ UNCHANGED <<table, lastCommit, last, seen, deleted>>

\* post, delete: cursor.execute("select ..."); cursor.fetchone()
Select(p) ==
    LET me == proc[p]
        row == SelectMessage(table, me.name)
    IN /\ me.pc = "select"
       /\ proc' = [proc EXCEPT ![p] =
                      IF row # <<>>
                      THEN [me EXCEPT !.pc = IF me.op = "post" THEN "update" ELSE "delete"]
                      ELSE [me EXCEPT !.pc = "commit",
                                      !.ret = IF me.op = "post"
                                              THEN Tuple(me.name, NotFound)
                                              ELSE Str(NotFound)]]
       /\ UNCHANGED <<table, lastCommit, last, seen, deleted>>

\* delete: cursor.execute("delete ...")
DeleteRow(p) ==
    LET me == proc[p]
    IN /\ me.pc = "delete"
       /\ ~Blocked(p, me.name, {"update", "delete"})
       /\ proc' = [proc EXCEPT ![p] =
                      [me EXCEPT !.pend = IF KeyCount(table, me.name) > 0
                                          THEN "delete" ELSE "none",
                                 !.pc = "commit",
                                 !.ret = Str(me.name)]]
       /\ UNCHANGED <<table, lastCommit, last, seen, deleted>>

\* The table once the transaction's write is committed.
Committed(t, pr) ==
    CASE pr.pend = "insert" -> Append(t, <<pr.name, pr.snippet>>)
      [] pr.pend = "update" -> UpdateStmt(t, pr.snippet, pr.name)
      [] pr.pend = "delete" -> DeleteStmt(t, pr.name)
      [] OTHER -> t

\* The end of the `with connection` block: commit, then return.
Commit(p) ==
    /\ proc[p].pc = "commit"
    /\ table' = Committed(table, proc[p])
    /\ lastCommit' = p
    /\ proc' = [proc EXCEPT ![p] = [proc[p] EXCEPT !.pend = "none", !.pc = "done"]]
    /\ UNCHANGED <<last, seen, deleted>>

\* The process exits; the next command is a new process.
Exit(p) ==
    /\ proc[p].pc = "done"
    /\ proc' = [proc EXCEPT ![p] = Idle]
    /\ UNCHANGED <<table, lastCommit, last, seen, deleted>>

NextConc ==
    \E p \in Procs :
        \/ Start(p)
        \/ PutInsert(p)
        \/ PutRollback(p)
        \/ Update(p)
        \/ Select(p)
        \/ DeleteRow(p)
        \/ Commit(p)
        \/ Exit(p)

SpecConc == Init /\ [][NextConc]_vars

(* ------------------------------- claims -------------------------------- *)

Absent(t, k) == KeyCount(t, k) = 0

\* s occurs in msg as a literal substring.
Contains(msg, s) ==
    \E i \in 1..(Len(msg) + 1) :
        /\ i + Len(s) - 1 <= Len(msg)
        /\ SubSeq(msg, i, i + Len(s) - 1) = s
Returned(c) == c.raised = "none"

\* C1: a put that returns, returns (name, snippet), and leaves exactly one
\* row for name, the row (name, snippet), on the insert path (keyword
\* absent) and on the rollback-then-update path (keyword present); a get of
\* that name right after returns snippet.
C1_UpsertCorrect ==
    [][ /\ (last'.op = "put" /\ Returned(last')) =>
            /\ last'.ret = Tuple(last'.name, last'.snippet)
            /\ KeyCount(table', last'.name) = 1
            /\ <<last'.name, last'.snippet>> \in RowSet(table')
            /\ last'.path = IF Absent(table, last'.name) THEN "insert" ELSE "update"
        /\ (last.op = "put" /\ Returned(last) /\ last'.op = "get" /\ last'.name = last.name) =>
            last'.ret = Str(last.snippet)
      ]_vars

\* A put of a keyword already stored, with a new message, has returned.
C1_Witness ==
    /\ last.op = "put" /\ last.path = "update"
    /\ last.ret = Tuple(<<"a">>, <<"'">>)
    /\ <<<<"a">>, <<"'">>>> \in RowSet(table)

\* C2: the table holds at most one row per keyword.
C2_KeywordUnique == \A k \in Names : KeyCount(table, k) <= 1

\* Every keyword is stored and the latest put went through the rolled back
\* insert.
C2_Witness ==
    /\ Len(table) = Cardinality(Names)
    /\ last.op = "put" /\ last.path = "update" /\ Returned(last)

\* C3: a post of an absent keyword returns (name, "404 Snippet Not Found")
\* and leaves the table as it was, and a get of it right after returns the
\* sentinel; a post of a stored keyword returns (name, snippet), sets that
\* row's message to snippet and changes nothing else.
C3_PostNeverCreates ==
    [][ /\ (last'.op = "post" /\ Absent(table, last'.name)) =>
            /\ Returned(last')
            /\ last'.ret = Tuple(last'.name, NotFound)
            /\ table' = table
        /\ (last'.op = "post" /\ ~Absent(table, last'.name)) =>
            /\ Returned(last')
            /\ last'.ret = Tuple(last'.name, last'.snippet)
            /\ Len(table') = Len(table)
            /\ \A i \in 1..Len(table) :
                  /\ table'[i][1] = table[i][1]
                  /\ table[i][1] # last'.name => table'[i] = table[i]
                  /\ table[i][1] = last'.name => table'[i][2] = last'.snippet
        /\ (last.op = "post" /\ Absent(table, last.name)
              /\ last'.op = "get" /\ last'.name = last.name) =>
            last'.ret = Str(NotFound)
      ]_vars

\* A post of an absent keyword has returned while other keywords are stored.
C3_Witness ==
    /\ last.op = "post" /\ last.path = "absent"
    /\ Absent(table, last.name) /\ Len(table) = 2

\* C4: a delete of a stored keyword returns the name and removes that row
\* only; from then on, until a put of the name, get(name) returns the
\* sentinel and delete(name) returns the sentinel without a fault and
\* without changing the table.
C4_DeleteThenGet ==
    [][ /\ (last'.op = "delete" /\ ~Absent(table, last'.name)) =>
            /\ Returned(last')
            /\ last'.ret = Str(last'.name)
            /\ Absent(table', last'.name)
            /\ Len(table') = Len(table) - 1
            /\ \A k \in Names \ {last'.name} : WithKey(table', k) = WithKey(table, k)
        /\ (last'.op = "get" /\ last'.name \in deleted) => last'.ret = Str(NotFound)
        /\ (last'.op = "delete" /\ last'.name \in deleted) =>
            /\ Returned(last')
            /\ last'.ret = Str(NotFound)
            /\ table' = table
      ]_vars

\* A second delete of the same keyword has returned, other rows remaining.
C4_Witness ==
    /\ last.op = "delete" /\ last.again /\ last.name \in deleted
    /\ Len(table) = 2

\* C5: search(s) returns the rows whose message contains s as a literal
\* substring, and the pair ("404 No Matching Snippets Found Containing", s)
\* exactly when there is none, for every s.
C5_SearchLiteral ==
    last.op = "search" =>
        LET hits == {r \in RowSet(table) : Contains(r[2], last.name)}
        IN /\ Returned(last)
           /\ IF hits = {}
              THEN last.ret = Tuple(NoMatch, last.name)
              ELSE last.ret.kind = "list" /\ RowSet(last.ret.val) = hits

C7_SentinelIffAbsent ==
    [][ /\ last'.op \in {"get", "delete"} =>
            ((last'.ret = Str(NotFound)) <=> Absent(table, last'.name))
        /\ last'.op = "post" =>
            ((last'.ret = Tuple(last'.name, NotFound)) <=> Absent(table, last'.name))
      ]_vars

\* C7 as amended: the sentinel is returned whenever no row for name existed;
\* and when it is returned, either no row existed, or the stored message
\* (get), the snippet passed (post) or the name passed (delete) is itself
\* the sentinel text.
C7_SentinelAmended ==
    [][ /\ (last'.op \in {"get", "delete"} /\ Absent(table, last'.name)) =>
            last'.ret = Str(NotFound)
        /\ (last'.op = "post" /\ Absent(table, last'.name)) =>
            last'.ret = Tuple(last'.name, NotFound)
        /\ (last'.op = "get" /\ last'.ret = Str(NotFound)) =>
            \/ Absent(table, last'.name)
            \/ <<last'.name, NotFound>> \in RowSet(table)
        /\ (last'.op = "post" /\ last'.ret = Tuple(last'.name, NotFound)) =>
            Absent(table, last'.name) \/ last'.snippet = NotFound
        /\ (last'.op = "delete" /\ last'.ret = Str(NotFound)) =>
            Absent(table, last'.name) \/ last'.name = NotFound
      ]_vars

\* get has returned the sentinel text for a keyword that is stored.
C7_Witness ==
    /\ last.op = "get" /\ last.ret = Str(NotFound)
    /\ ~Absent(table, last.name)

\* The injected fault reaches a statement the call executes.
Struck(t, c) ==
    \/ c.fault \in {"insert", "select", "commit"}
    \/ c.fault \in {"rollback", "update", "delete"} /\ ~Absent(t, c.name)

C10_LastCommitterWins ==
    \A p \in Procs :
        (proc[p].pc = "done" /\ lastCommit = p) =>
            /\ (proc[p].op \in {"put", "post"}
                  /\ proc[p].ret = Tuple(proc[p].name, proc[p].snippet)) =>
                <<proc[p].name, proc[p].snippet>> \in RowSet(table)
            /\ (proc[p].op = "delete" /\ proc[p].ret = Str(proc[p].name)) =>
                Absent(table, proc[p].name)

====
